---- MODULE Spec2Model ----
(***************************************************************************)
(* Push-to-talk dictation pipeline of voice_to_text.py.                    *)
(*                                                                         *)
(* One event thread runs the two hotkey handlers (on_hotkey_press,         *)
(* on_hotkey_release), each atomically.  Every accepted key-down starts a  *)
(* daemon thread running process_voice_input; a thread is modelled by a    *)
(* program counter and its local variables, and advances one blocking      *)
(* call at a time.  The threads share the two module globals is_recording  *)
(* and stop_recording and nothing else.                                    *)
(*                                                                         *)
(* Time is counted in polling intervals: one iteration of the capture loop *)
(* (a blocking read of one 100 ms chunk) is one tick.                      *)
(***************************************************************************)
EXTENDS Naturals, Sequences, FiniteSets

\* ------------------------------------------------------------------ bounds

\* Thread slots: how many process_voice_input threads may be alive at once.
MaxWorkers == 2

\* MAX_DURATION (30 s) in polling intervals of 0.1 s is 300; scaled down.
MaxDurationTicks == 2

Workers == 1..MaxWorkers

\* ------------------------------------------------------------- input sets

\* Contents the engine may leave in <input>.txt, as sequences of characters.
Transcripts ==
    { << " ", "\n" >>,
      << "a" >>,
      << " ", "a", "\n", " ", "b", " " >> }

\* Python's None, and a value that is not None: an optional value is a set of
\* at most one element.
NoneVal == { }

Some(x) == { x }

The(o) == CHOOSE x \in o : TRUE

\* ------------------------------------------------------------------ state

VARIABLES
    is_recording,    \* module global, line 58
    stop_recording,  \* module global, line 61
    press_ignored,   \* the last key-down handled took the early return (line 401)
    thr,             \* thr[w]: one process_voice_input thread (pc and locals)
    started          \* history: the threads in flight, in the order their
                     \* key-downs were handled (kept by OrderSpec only)

vars == << is_recording, stop_recording, press_ignored, thr, started >>

\* ---------------------------------------------------------- text handling

IsSpace(c) == c \in {" ", "\n", "\t"}

\* str.strip(): drop leading and trailing whitespace.
RECURSIVE LStrip(_)
LStrip(s) ==
    IF s = << >> THEN << >>
    ELSE IF IsSpace(Head(s)) THEN LStrip(Tail(s)) ELSE s

RECURSIVE RStrip(_)
RStrip(s) ==
    IF s = << >> THEN << >>
    ELSE IF IsSpace(s[Len(s)]) THEN RStrip(SubSeq(s, 1, Len(s) - 1)) ELSE s

Strip(s) == RStrip(LStrip(s))

\* str.split(): the maximal runs of non-whitespace, in order.
RECURSIVE SplitFrom(_, _, _)
SplitFrom(s, cur, acc) ==
    IF s = << >> THEN (IF cur = << >> THEN acc ELSE Append(acc, cur))
    ELSE IF IsSpace(Head(s))
         THEN SplitFrom(Tail(s), << >>, IF cur = << >> THEN acc ELSE Append(acc, cur))
         ELSE SplitFrom(Tail(s), Append(cur, Head(s)), acc)

Split(s) == SplitFrom(s, << >>, << >>)

\* ' '.join(words)
RECURSIVE Join(_)
Join(words) ==
    IF words = << >> THEN << >>
    ELSE IF Len(words) = 1 THEN words[1]
    ELSE words[1] \o << " " >> \o Join(Tail(words))

\* The transcript trimmed but its inner whitespace kept.
CleanText_strip_only(content) == Strip(content)

\* transcribe, lines 299 and 305: f.read().strip(), then ' '.join(text.split()).
CleanText(content) == Join(Split(Strip(content)))

\* ---------------------------------------------------------------- threads

\* A free slot: no thread, or a thread that has returned.
FreshThread ==
    [ pc              |-> "idle",
      temp_file       |-> FALSE,     \* the .wav of line 364 exists on disk
      stream_open     |-> FALSE,     \* an InputStream of this thread is open
      elapsed         |-> 0,         \* time.time() - start_time, in ticks
      recorded_chunks |-> << >>,     \* local of record_audio_while_held: the
                                     \* chunks read, each named by its tick
      audio           |-> NoneVal,   \* local of process_voice_input, until
                                     \* transcribe takes over (line 379)
      wav_written     |-> FALSE,     \* save_audio has written the .wav
      engine          |-> NoneVal,   \* what the engine run did
      txt_file        |-> FALSE,     \* <input>.txt exists on disk
      text            |-> NoneVal,   \* local of process_voice_input
      injected        |-> << >>,     \* texts handed to pyautogui.write
      typed           |-> << >>,     \* texts pyautogui.write emitted in full
      hist            |-> << "Idle" >>,    \* session stages passed through
      stop_signalled  |-> FALSE ]    \* a key-up came while in the capture loop

InFlightPcs ==
    { "start", "open", "poll", "read", "close", "save", "transcribe", "engine",
      "type", "finally" }

CapturePcs == { "poll", "read" }

\* The stage of the session a thread position belongs to (spec section 4.4).
Stage(p) ==
    CASE p \in { "start", "open", "poll", "read", "close" } -> "Recording"
      [] p \in { "save", "transcribe", "engine" }            -> "Transcribing"
      [] p = "type"                                           -> "Injecting"
      [] OTHER                                                -> "Idle"

InFlight(w) == thr[w].pc \in InFlightPcs

\* Thread record t moved to position p, the stage history following.
Goto(t, p) ==
    [ t EXCEPT !.pc = p,
               !.hist = IF Stage(p) # t.hist[Len(t.hist)]
                        THEN Append(t.hist, Stage(p)) ELSE t.hist ]

TypeOK ==
    /\ is_recording \in BOOLEAN
    /\ stop_recording \in BOOLEAN
    /\ press_ignored \in BOOLEAN
    /\ \A w \in Workers : thr[w].pc \in InFlightPcs \cup { "idle", "done" }

Init ==
    /\ is_recording = FALSE
    /\ stop_recording = FALSE
    /\ press_ignored = FALSE
    /\ thr = [ w \in Workers |-> FreshThread ]
    /\ started = << >>

\* ------------------------------------------------------------ key handlers

\* The slot a new thread gets: the lowest free one (thread identity is arbitrary).
FreeSlots == { w \in Workers : thr[w].pc \in { "idle", "done" } }

LowestFree == CHOOSE w \in FreeSlots : \A v \in FreeSlots : w <= v

\* threading.Thread(target=process_voice_input).start(), lines 407-408.
StartThread(w) == thr' = [ thr EXCEPT ![w] = Goto(FreshThread, "start") ]

\* on_hotkey_press without the is_recording check of lines 400-401.
on_hotkey_press_unguarded ==
    /\ FreeSlots # {}
    /\ is_recording' = TRUE
    /\ stop_recording' = FALSE
    /\ press_ignored' = is_recording
    /\ StartThread(LowestFree)

\* on_hotkey_press without the reset of stop_recording at line 404.
on_hotkey_press_keeps_stop ==
    IF is_recording
    THEN /\ press_ignored' = TRUE
         /\ UNCHANGED << is_recording, stop_recording, thr >>
    ELSE /\ FreeSlots # {}
         /\ is_recording' = TRUE
         /\ press_ignored' = FALSE
         /\ StartThread(LowestFree)
         /\ UNCHANGED stop_recording

\* on_hotkey_press, lines 395-408.
on_hotkey_press ==
    IF is_recording
    THEN /\ press_ignored' = TRUE
         /\ UNCHANGED << is_recording, stop_recording, thr >>
    ELSE /\ FreeSlots # {}
         /\ is_recording' = TRUE
         /\ stop_recording' = FALSE
         /\ press_ignored' = FALSE
         /\ StartThread(LowestFree)

\* on_hotkey_release without the is_recording = False of line 415.
on_hotkey_release_keeps_recording ==
    /\ stop_recording' = TRUE
    /\ press_ignored' = FALSE
    /\ thr' = [ w \in Workers |->
                  IF thr[w].pc \in CapturePcs
                  THEN [ thr[w] EXCEPT !.stop_signalled = TRUE ]
                  ELSE thr[w] ]
    /\ UNCHANGED is_recording

\* on_hotkey_release, lines 410-415.  Threads polling the stop flag at this
\* moment are marked: this key-up is the stop signal of their capture.
on_hotkey_release ==
    /\ stop_recording' = TRUE
    /\ is_recording' = FALSE
    /\ press_ignored' = FALSE
    /\ thr' = [ w \in Workers |->
                  IF thr[w].pc \in CapturePcs
                  THEN [ thr[w] EXCEPT !.stop_signalled = TRUE ]
                  ELSE thr[w] ]

\* ----------------------------------------------------- process_voice_input

Globals == << is_recording, stop_recording, press_ignored >>

Step(w, t) == /\ thr' = [ thr EXCEPT ![w] = t ]
              /\ UNCHANGED Globals

\* The thread function has returned: its locals are gone, what it left open or
\* on disk stays.
Returned(t) ==
    [ FreshThread EXCEPT !.pc = "done",
                         !.temp_file = t.temp_file,
                         !.stream_open = t.stream_open,
                         !.txt_file = t.txt_file ]

\* Lines 363-365: the temporary .wav is created (delete=False) and closed.
NamedTemporaryFile(w) ==
    /\ thr[w].pc = "start"
    /\ Step(w, Goto([ thr[w] EXCEPT !.temp_file = TRUE ], "open"))

\* Lines 217-219 and 371-372: an exception inside record_audio_while_held is
\* logged, None is returned, and process_voice_input returns through finally.
RecordingError(t) ==
    Goto([ t EXCEPT !.audio = NoneVal, !.elapsed = 0, !.recorded_chunks = << >>,
                    !.stop_signalled = FALSE ], "finally")

\* Lines 170-181: sd.InputStream(...) opens the device, stream.start() starts it.
InputStreamStart(w) ==
    /\ thr[w].pc = "open"
    /\ \E r \in { "ok", "open_error", "start_error" } :
         CASE r = "ok" ->
                Step(w, Goto([ thr[w] EXCEPT !.stream_open = TRUE, !.elapsed = 0,
                                            !.recorded_chunks = << >> ], "poll"))
           [] r = "open_error" ->
                Step(w, RecordingError(thr[w]))
           [] r = "start_error" ->
                Step(w, RecordingError([ thr[w] EXCEPT !.stream_open = TRUE ]))

\* The duration check one polling interval too lenient.
TimeExceeded_lenient(t, late) == t.elapsed > MaxDurationTicks + 1

\* Line 186: time.time() - start_time > MAX_DURATION.  With time in whole
\* ticks the comparison at exactly MAX_DURATION ticks is decided by the
\* sub-tick remainder (late: the clock reads past the tick boundary).
TimeExceeded(t, late) ==
    \/ t.elapsed > MaxDurationTicks
    \/ t.elapsed = MaxDurationTicks /\ late

\* Lines 184-188: one evaluation of the loop condition and the duration check.
CapturePoll(w) ==
    /\ thr[w].pc = "poll"
    /\ IF stop_recording
       THEN Step(w, Goto(thr[w], "close"))
       ELSE \E late \in BOOLEAN :
              IF TimeExceeded(thr[w], late)
              THEN Step(w, Goto(thr[w], "close"))
              ELSE Step(w, Goto(thr[w], "read"))

\* Lines 191-195: a blocking read of one chunk (one tick), appended in order.
\* A blocking read returns the full 1600 frames, so len(chunk) > 0 holds.
StreamRead(w) ==
    /\ thr[w].pc = "read"
    /\ \E ok \in BOOLEAN :
         IF ok
         THEN Step(w, Goto([ thr[w] EXCEPT
                               !.recorded_chunks = Append(@, thr[w].elapsed + 1),
                               !.elapsed = @ + 1 ], "poll"))
         ELSE Step(w, RecordingError(thr[w]))

\* The stream left running when the loop exits.
StopStream_skipped(t) == t

\* Lines 197-198: stream.stop(); stream.close().
StopStream(t) == [ t EXCEPT !.stream_open = FALSE ]

\* The return value of lines 200-215 if a near-silent buffer were treated as
\* no audio.
CombinedAudio_rejects_low(ch, low) ==
    IF ch # << >> /\ ~low THEN Some([ chunks |-> ch, low |-> low ]) ELSE NoneVal

\* Lines 200-215: the return value of record_audio_while_held.  A peak below
\* 0.001 (low) only prints a warning, lines 208-210.
CombinedAudio(ch, low) ==
    IF ch # << >> THEN Some([ chunks |-> ch, low |-> low ]) ELSE NoneVal

\* Lines 197-215 and 369-372: the stream is released and the chunks combined.
\* The samples are looked at here for the first time: low is
\* np.max(np.abs(audio)) < 0.001.  process_voice_input returns on None.
StreamClose(w) ==
    /\ thr[w].pc = "close"
    /\ LET ch == thr[w].recorded_chunks
           u  == [ StopStream(thr[w]) EXCEPT !.recorded_chunks = << >>, !.elapsed = 0,
                                             !.stop_signalled = FALSE ]
       IN \E low \in BOOLEAN :
            LET a == CombinedAudio(ch, low)
            IN  Step(w, Goto([ u EXCEPT !.audio = a ],
                             IF a = NoneVal THEN "finally" ELSE "save"))

\* Lines 221-248 and 375: an error in save_audio is re-raised and caught at 385.
save_audio(w) ==
    /\ thr[w].pc = "save"
    /\ \E ok \in BOOLEAN :
         IF ok
         THEN Step(w, Goto([ thr[w] EXCEPT !.wav_written = TRUE ], "transcribe"))
         ELSE Step(w, Goto([ thr[w] EXCEPT !.audio = NoneVal ], "finally"))

\* ------------------------------------------------------------- transcribe

\* What one engine run can do (subprocess.run, lines 288-293): it exceeds the
\* 60 s timeout or exits with a status; either way it may have written
\* <input>.txt; reading the file back (lines 298-302) may raise.
EngineOutcomes ==
    { [ timeout |-> TRUE, status |-> "none", artifact |-> FALSE, content |-> << >>,
        read_error |-> FALSE ] }
    \cup
    { [ timeout |-> TRUE, status |-> "none", artifact |-> TRUE, content |-> c,
        read_error |-> FALSE ] : c \in Transcripts }
    \cup
    { [ timeout |-> FALSE, status |-> st, artifact |-> FALSE, content |-> << >>,
        read_error |-> FALSE ] : st \in { "zero", "nonzero" } }
    \cup
    { [ timeout |-> FALSE, status |-> st, artifact |-> TRUE, content |-> c,
        read_error |-> e ] : st \in { "zero", "nonzero" }, c \in Transcripts, e \in BOOLEAN }

\* The engine process could not be started (subprocess.run raises, line 329).
NotStarted ==
    [ timeout |-> FALSE, status |-> "not_started", artifact |-> FALSE,
      content |-> << >>, read_error |-> FALSE ]

\* Lines 264-293: the command is built and the engine process started; a
\* failure to start it is caught at line 329 and transcribe returns None.
SubprocessRun(w) ==
    /\ thr[w].pc = "transcribe"
    /\ \E ok \in BOOLEAN :
         IF ok
         THEN Step(w, Goto([ thr[w] EXCEPT !.audio = NoneVal ], "engine"))
         ELSE Step(w, Goto([ thr[w] EXCEPT !.audio = NoneVal, !.text = NoneVal,
                                           !.engine = Some(NotStarted) ], "finally"))

\* transcribe if the handler of TimeoutExpired went on to read the artifact.
TranscribeResult_reads_after_timeout(t, o) ==
    LET u == [ t EXCEPT !.engine = Some(o), !.txt_file = o.artifact ]
    IN IF ~o.artifact \/ o.read_error
       THEN [ u EXCEPT !.text = NoneVal ]
       ELSE LET txt == CleanText(o.content)
            IN [ u EXCEPT !.txt_file = FALSE,
                          !.text = IF txt # << >> THEN Some(txt) ELSE NoneVal ]

\* transcribe if it gave up on a non-zero exit status of the engine.
TranscribeResult_checks_status(t, o) ==
    LET u == [ t EXCEPT !.engine = Some(o), !.txt_file = o.artifact ]
    IN IF o.timeout \/ ~o.artifact \/ o.read_error \/ o.status = "nonzero"
       THEN [ u EXCEPT !.text = NoneVal ]
       ELSE LET txt == CleanText(o.content)
            IN [ u EXCEPT !.txt_file = FALSE,
                          !.text = IF txt # << >> THEN Some(txt) ELSE NoneVal ]

\* Lines 296-331: the value transcribe returns for engine outcome o, and what
\* it leaves on disk.
TranscribeResult(t, o) ==
    LET u == [ t EXCEPT !.engine = Some(o), !.txt_file = o.artifact ]
    IN IF o.timeout \/ ~o.artifact \/ o.read_error
       THEN [ u EXCEPT !.text = NoneVal ]
       ELSE LET txt == CleanText(o.content)
            IN [ u EXCEPT !.txt_file = FALSE,
                          !.text = IF txt # << >> THEN Some(txt) ELSE NoneVal ]

\* subprocess.run without its timeout: an engine that hangs blocks the thread.
EngineReturns_unbounded(w) ==
    /\ thr[w].pc = "engine"
    /\ \E o \in EngineOutcomes :
         LET t == TranscribeResult(thr[w], o)
         IN IF o.timeout
            THEN Step(w, [ thr[w] EXCEPT !.pc = "blocked" ])
            ELSE IF t.text # NoneVal /\ The(t.text) # << >>
            THEN Step(w, Goto(t, "type"))
            ELSE Step(w, Goto(t, "finally"))

\* Lines 379-383 if typing were skipped while a new recording is under way.
EngineReturns_unless_recording(w) ==
    /\ thr[w].pc = "engine"
    /\ \E o \in EngineOutcomes :
         LET t == TranscribeResult(thr[w], o)
         IN IF t.text # NoneVal /\ The(t.text) # << >> /\ ~is_recording
            THEN Step(w, Goto(t, "type"))
            ELSE Step(w, Goto(t, "finally"))

\* The engine run ends and transcribe returns; lines 379-383 go on to type_text
\* only for a text that is neither None nor empty.
EngineReturns(w) ==
    /\ thr[w].pc = "engine"
    /\ \E o \in EngineOutcomes :
         LET t == TranscribeResult(thr[w], o)
         IN IF t.text # NoneVal /\ The(t.text) # << >>
            THEN Step(w, Goto(t, "type"))
            ELSE Step(w, Goto(t, "finally"))

\* Lines 335-355: pyautogui.write(text); an error is logged, not raised.
type_text(w) ==
    /\ thr[w].pc = "type"
    /\ LET t == [ thr[w] EXCEPT !.injected = Append(@, The(thr[w].text)) ]
       IN \E ok \in BOOLEAN :
            IF ok
            THEN Step(w, Goto([ t EXCEPT !.typed = Append(@, The(thr[w].text)) ], "finally"))
            ELSE Step(w, Goto(t, "finally"))

\* The finally block without its os.unlink.
Unlink_skipped(t) == t

\* Lines 390-391: os.unlink(temp_audio_path).
Unlink(t) == [ t EXCEPT !.temp_file = FALSE, !.wav_written = FALSE ]

\* Lines 388-393: os.unlink(temp_audio_path), then the thread function returns.
Finally(w) ==
    /\ thr[w].pc = "finally"
    /\ Step(w, Returned(Unlink(thr[w])))

\* One step of thread w.
process_voice_input(w) ==
    \/ NamedTemporaryFile(w)
    \/ InputStreamStart(w)
    \/ CapturePoll(w)
    \/ StreamRead(w)
    \/ StreamClose(w)
    \/ save_audio(w)
    \/ SubprocessRun(w)
    \/ EngineReturns(w)
    \/ type_text(w)
    \/ Finally(w)

\* The keyboard hooks of lines 481-485 deliver key-downs and key-ups in any
\* order; started threads run concurrently with them.
Next ==
    \/ on_hotkey_press /\ UNCHANGED started
    \/ on_hotkey_release /\ UNCHANGED started
    \/ \E w \in Workers : process_voice_input(w) /\ UNCHANGED started

Spec == Init /\ [][Next]_vars

\* The scheduler runs every started thread: each thread that can take a step
\* eventually takes one.
FairSpec ==
    Spec /\ \A w \in Workers : WF_vars(process_voice_input(w) /\ UNCHANGED started)

\* The start order of the threads in flight, recorded as the step is taken: a
\* thread started at line 407 is appended, a thread that has returned leaves.
LogStarted ==
    LET kept == SelectSeq(started, LAMBDA v : thr'[v].pc \in InFlightPcs)
        new  == { w \in Workers : thr[w].pc \notin InFlightPcs /\ thr'[w].pc = "start" }
    IN  started' = IF new = {} THEN kept ELSE Append(kept, CHOOSE w \in new : TRUE)

\* The same program, with the start order of its threads recorded.
OrderNext ==
    \/ on_hotkey_press /\ LogStarted
    \/ on_hotkey_release /\ LogStarted
    \/ \E w \in Workers : process_voice_input(w) /\ LogStarted

OrderSpec == Init /\ [][OrderNext]_vars

\* ------------------------------------------------------------------ claims

InFlightSet == { w \in Workers : InFlight(w) }

CapturingSet == { w \in Workers : thr[w].pc \in CapturePcs }

\* C1: in every reachable state at most one thread running process_voice_input
\* is in flight (started and not yet returned).
C1_AtMostOneInFlight == Cardinality(InFlightSet) <= 1

\* C2: in every reachable state at most one thread is inside the capture loop
\* of record_audio_while_held, also when a key-up is directly followed by a
\* key-down before the capturing thread polls the stop flag again.
C2_AtMostOneCapturing == Cardinality(CapturingSet) <= 1

\* C3: a key-down handled while is_recording is set starts no thread and leaves
\* is_recording, stop_recording and every thread's progress unchanged.
C3_PressWhileActiveIsNoOp ==
    [][ (on_hotkey_press /\ is_recording)
          => UNCHANGED << is_recording, stop_recording, thr >> ]_vars

\* C3 witness: a key-down was ignored while a thread was in flight.
C3_Witness == press_ignored /\ is_recording /\ InFlightSet # {}

StageRank(st) ==
    CASE st = "Recording"    -> 1
      [] st = "Transcribing" -> 2
      [] st = "Injecting"    -> 3
      [] OTHER               -> 4

\* The stages after the initial Idle come in pipeline order, none repeated.
InPipelineOrder(h) ==
    /\ h[1] = "Idle"
    /\ \A i \in 2..Len(h) : \A j \in 2..Len(h) :
         i < j => StageRank(h[i]) < StageRank(h[j])

\* C4: within one thread the engine runs only after the capture loop has exited
\* and the stream has been stopped, text is injected only after the engine call
\* has returned, and the stages come in order.
C4_StagesOrdered ==
    \A w \in Workers :
      /\ InPipelineOrder(thr[w].hist)
      /\ thr[w].pc \in { "save", "transcribe", "engine", "type" }
           => /\ ~thr[w].stream_open
              /\ thr[w].recorded_chunks = << >>
      /\ thr[w].pc \in { "transcribe", "engine" }
           => thr[w].hist = << "Idle", "Recording", "Transcribing" >>
      /\ thr[w].pc \in { "save", "transcribe", "engine" }
           => thr[w].engine = NoneVal /\ thr[w].injected = << >>
      /\ thr[w].pc = "type"
           => /\ thr[w].engine # NoneVal
              /\ thr[w].hist = << "Idle", "Recording", "Transcribing", "Injecting" >>
      /\ thr[w].injected # << >> => thr[w].engine # NoneVal

\* C4 witness: a thread has reached the injection stage.
C4_Witness == \E w \in Workers : thr[w].pc = "type"

\* Whitespace normalization as the spec words it: every run of whitespace
\* becomes one space, then leading and trailing space is trimmed.
RECURSIVE Squeeze(_)
Squeeze(s) ==
    IF s = << >> THEN << >>
    ELSE IF IsSpace(Head(s))
         THEN IF Tail(s) # << >> /\ IsSpace(Head(Tail(s)))
              THEN Squeeze(Tail(s))
              ELSE << " " >> \o Squeeze(Tail(s))
         ELSE << Head(s) >> \o Squeeze(Tail(s))

Trim(s) ==
    LET a == IF s # << >> /\ Head(s) = " " THEN Tail(s) ELSE s
    IN IF a # << >> /\ a[Len(a)] = " " THEN SubSeq(a, 1, Len(a) - 1) ELSE a

Normalized(content) == Trim(Squeeze(content))

FullPipeline == << "Idle", "Recording", "Transcribing", "Injecting", "Idle" >>

\* Thread w is about to return from a session whose engine run left a
\* transcript artifact with non-empty normalized content.  (The engine only
\* runs on a buffer of at least one chunk, see C5_Theorem's first conjunct.)
ProducedTranscript(w) ==
    /\ thr[w].pc = "finally"
    /\ thr[w].engine # NoneVal
    /\ The(thr[w].engine).artifact
    /\ Normalized(The(thr[w].engine).content) # << >>

InjectedExactlyOnce(w) ==
    /\ thr[w].injected = << Normalized(The(thr[w].engine).content) >>
    /\ thr[w].hist = FullPipeline

\* C5 as stated: whenever at least one chunk was captured and the engine
\* produced a transcript artifact whose normalized content T is non-empty, the
\* injector is called exactly once with exactly T and the session passes
\* through Idle, Recording, Transcribing, Injecting, Idle.
C5_Original == \A w \in Workers : ProducedTranscript(w) => InjectedExactlyOnce(w)

\* C5 as amended: the same, for an engine run that ended within the timeout
\* and whose artifact was read back and removed without error.
C5_Theorem ==
    \A w \in Workers :
      /\ thr[w].audio # NoneVal => Len(The(thr[w].audio).chunks) >= 1
      /\ thr[w].pc \in { "transcribe", "engine", "type" } => thr[w].temp_file
      /\ ( /\ ProducedTranscript(w)
           /\ ~The(thr[w].engine).timeout
           /\ ~The(thr[w].engine).read_error )
           => InjectedExactlyOnce(w)

\* C5 witness: a session ended after injecting a text that needed normalizing.
C5_Witness ==
    \E w \in Workers :
      /\ ProducedTranscript(w)
      /\ The(thr[w].engine).content # Normalized(The(thr[w].engine).content)
      /\ thr[w].injected = << << "a", " ", "b" >> >>
      /\ thr[w].hist = FullPipeline

\* C6: under fair scheduling every started thread returns, whichever stage
\* fails and whether or not a key-up arrives, and the key handlers stay
\* available.
C6_EveryWorkerReturns ==
    /\ \A w \in Workers : InFlight(w) ~> (thr[w].pc = "done")
    /\ [](ENABLED on_hotkey_release)

\* C6 witness: a thread returned after a failed stage left its stream open,
\* no key-up having been handled since the key-down that started it.
C6_Witness ==
    /\ is_recording
    /\ InFlightSet = {}
    /\ \E w \in Workers : thr[w].pc = "done" /\ thr[w].stream_open

\* C7: whenever is_recording is set, some thread is still in flight (a finished
\* session leaves the flag clear).
C7_ActiveFlagImpliesWorker == is_recording => InFlightSet # {}

\* C8: a key-up that occurs while a thread is in the capture loop makes that
\* thread leave the loop at its next poll of the stop flag, whatever key events
\* follow the key-up.
C8_KeyUpStopsCapture ==
    [][ \A w \in Workers :
          ( /\ thr[w].pc = "poll"
            /\ thr[w].stop_signalled
            /\ thr'[w].pc # "poll" )
          => thr'[w].pc = "close" ]_vars

\* C9: the capture loop is left at or before MAX_DURATION plus one polling
\* interval after capture start, and what is returned is the chunks
\* accumulated up to then.
C9_CaptureTimeBounded ==
    /\ [](\A w \in Workers :
            /\ thr[w].pc \in { "poll", "read", "close" }
                 => thr[w].elapsed <= MaxDurationTicks + 1
            /\ thr[w].pc = "read" => thr[w].elapsed <= MaxDurationTicks)
    /\ [][ \A w \in Workers :
             (thr[w].pc = "close" /\ thr'[w].pc = "save")
             => The(thr'[w].audio).chunks = thr[w].recorded_chunks ]_vars

\* C9 witness: with no stop requested, a capture has left the loop at
\* MAX_DURATION plus one polling interval.
C9_Witness ==
    \E w \in Workers :
      /\ thr[w].pc = "close"
      /\ thr[w].elapsed = MaxDurationTicks + 1
      /\ ~thr[w].stop_signalled
      /\ ~stop_recording

\* C10: a buffer returned by record_audio_while_held never holds more than
\* MAX_DURATION / 0.1 chunks.
C10_BufferWithinMaxDuration ==
    \A w \in Workers :
      thr[w].audio # NoneVal => Len(The(thr[w].audio).chunks) <= MaxDurationTicks

\* -------------------------------------------------------------------- C11

\* The engine process of thread record t was started and ran.
EngineRan(t) == t.engine # NoneVal /\ t.engine # Some(NotStarted)

\* Thread record t never had a buffer to recognise: capture returned None.
NoBuffer(t) == "Transcribing" \notin { t.hist[i] : i \in 1..Len(t.hist) }

\* C11 as stated: a session whose capture loop gathered no chunk ends without
\* the engine and without injection, and a session that gathered at least one
\* chunk has its buffer run through the engine.
C11_Original ==
    \A w \in Workers :
      thr[w].pc = "finally" =>
        IF NoBuffer(thr[w])
        THEN thr[w].engine = NoneVal /\ thr[w].injected = << >>
        ELSE EngineRan(thr[w])

\* The step of thread w that leaves the capture loop's exit (lines 197-215).
LeavesCapture(w) == thr[w].pc = "close" /\ thr'[w].pc # "close"

\* C11, amended: a capture loop that ends with no chunk ends the session with
\* no engine run and no injection; one that ends with at least one chunk hands
\* the whole buffer on to save_audio whatever its peak level, and once
\* save_audio has written it the engine is started on it (the start may fail).
C11_Theorem ==
    /\ [](\A w \in Workers :
            /\ thr[w].pc = "finally" /\ NoBuffer(thr[w])
                 => thr[w].engine = NoneVal /\ thr[w].injected = << >>
            /\ thr[w].pc = "finally" /\ thr[w].wav_written
                 => thr[w].engine # NoneVal
            /\ thr[w].pc = "transcribe"
                 => thr[w].wav_written /\ thr[w].audio # NoneVal)
    /\ [][ \A w \in Workers :
             LeavesCapture(w) =>
               IF thr[w].recorded_chunks = << >>
               THEN thr'[w].pc = "finally" /\ thr'[w].audio = NoneVal
               ELSE /\ thr'[w].pc = "save"
                    /\ thr'[w].audio # NoneVal
                    /\ The(thr'[w].audio).chunks = thr[w].recorded_chunks ]_vars

\* C11 witness: a near-silent buffer has been saved and transcribe is called
\* on it, while another session ends after a capture that gathered nothing.
C11_Witness ==
    /\ \E w \in Workers :
         /\ thr[w].pc = "transcribe"
         /\ thr[w].audio # NoneVal
         /\ The(thr[w].audio).low
    /\ \E w \in Workers :
         /\ thr[w].pc = "finally"
         /\ thr[w].hist = << "Idle", "Recording", "Idle" >>
         /\ ~thr[w].stream_open

\* -------------------------------------------------------------------- C12

\* Recognition of thread record t yielded a non-empty text: the engine was
\* started, ended within its timeout and left an artifact that was read back
\* and is not empty after trimming.
Recognised(t) ==
    /\ t.engine # NoneVal
    /\ LET o == The(t.engine)
       IN /\ o.status \in { "zero", "nonzero" }
          /\ ~o.timeout
          /\ o.artifact
          /\ ~o.read_error
          /\ Normalized(o.content) # << >>

\* C12: a session whose recognition did not yield a non-empty text (timeout,
\* engine not started, no artifact, read error, empty after trimming) never
\* calls the injector: nothing is typed and the thread goes from transcribe
\* straight to its end.
C12_NoTextNoInjection ==
    /\ [](\A w \in Workers :
            ~Recognised(thr[w]) =>
               /\ thr[w].pc # "type"
               /\ thr[w].injected = << >>
               /\ thr[w].typed = << >>
               /\ "Injecting" \notin { thr[w].hist[i] : i \in 1..Len(thr[w].hist) })
    /\ [][ \A w \in Workers :
             /\ thr[w].pc \in { "transcribe", "engine" }
             /\ thr'[w].pc \notin { "transcribe", "engine" }
             /\ ~Recognised(thr'[w])
             => thr'[w].pc = "finally" ]_vars

\* C12 witness: a session ended after an engine run that left a transcript
\* with only whitespace in it, and nothing was injected.
C12_Witness ==
    \E w \in Workers :
      /\ thr[w].pc = "finally"
      /\ thr[w].engine # NoneVal
      /\ The(thr[w].engine).artifact
      /\ ~The(thr[w].engine).read_error
      /\ ~The(thr[w].engine).timeout
      /\ Normalized(The(thr[w].engine).content) = << >>
      /\ thr[w].injected = << >>

\* -------------------------------------------------------------------- C13

\* transcribe of thread w has returned after an engine run that ended with an
\* exit status.
Exited(w) ==
    /\ thr[w].pc \in { "type", "finally" }
    /\ thr[w].engine # NoneVal
    /\ The(thr[w].engine).status \in { "zero", "nonzero" }

\* C13 as stated: whatever the exit status, a run that leaves a non-empty
\* transcript artifact is reported as success with its text and a run that
\* leaves no artifact is reported as failure.
C13_Original ==
    \A w \in Workers :
      Exited(w) =>
        LET o == The(thr[w].engine)
        IN /\ o.artifact /\ Normalized(o.content) # << >>
                => thr[w].text = Some(Normalized(o.content))
           /\ ~o.artifact => thr[w].text = NoneVal

\* C13, amended: whatever the exit status, a run that leaves a non-empty
\* transcript artifact which is read back without error is reported as success
\* with its text, a run that leaves no artifact is reported as failure, and
\* two runs that differ in nothing but the exit status have the same result.
C13_Theorem ==
    /\ \A w \in Workers :
         Exited(w) =>
           LET o == The(thr[w].engine)
           IN /\ o.artifact /\ ~o.read_error /\ Normalized(o.content) # << >>
                   => thr[w].text = Some(Normalized(o.content))
              /\ ~o.artifact => thr[w].text = NoneVal
    /\ \A v, w \in Workers :
         /\ Exited(v) /\ Exited(w)
         /\ The(thr[v].engine).artifact = The(thr[w].engine).artifact
         /\ The(thr[v].engine).content = The(thr[w].engine).content
         /\ The(thr[v].engine).read_error = The(thr[w].engine).read_error
         => thr[v].text = thr[w].text /\ thr[v].txt_file = thr[w].txt_file

\* C13 witness: two engine runs that differ only in the exit status, both
\* leaving the same non-empty transcript, both reported as success; and the
\* text of a run that failed with a non-zero status is about to be typed.
C13_Witness ==
    \E v, w \in Workers :
      /\ Exited(v) /\ Exited(w)
      /\ The(thr[v].engine).status = "zero"
      /\ The(thr[w].engine).status = "nonzero"
      /\ The(thr[v].engine).content = The(thr[w].engine).content
      /\ thr[v].text # NoneVal
      /\ thr[w].text = thr[v].text
      /\ thr[w].pc = "type"

\* -------------------------------------------------------------------- C14

\* C14: once record_audio_while_held has returned, by a normal stop, by the
\* timeout or by an exception of stream.start() or stream.read(), no stream
\* it opened is still open: a thread holds an open stream only between the
\* opening of the stream and the exit of the capture loop.
C14_StreamClosedOnReturn ==
    \A w \in Workers :
      thr[w].stream_open => thr[w].pc \in { "open", "poll", "read", "close" }

\* -------------------------------------------------------------------- C15

\* C15: once transcribe has returned, by any path, no transcript artifact of
\* that call is left on disk.
C15_NoArtifactAfterTranscribe ==
    \A w \in Workers :
      thr[w].txt_file => thr[w].pc \in { "transcribe", "engine" }

\* -------------------------------------------------------------------- C16

PostCapturePcs == { "close", "save", "transcribe", "engine", "type", "finally" }

\* C17: once the capture loop of a thread has exited, a key-down or key-up
\* leaves that thread as it is, and what the thread goes on to do is fixed by
\* its buffer and its engine outcome alone: the engine is started exactly when
\* the buffer was saved, and the text of a successful recognition is injected,
\* once, whatever is_recording and stop_recording have become meanwhile.
C17_KeysDoNotAlterPipeline ==
    /\ [][ \/ is_recording' # is_recording
           \/ stop_recording' # stop_recording
           \/ on_hotkey_press
           \/ on_hotkey_release
           => \A w \in Workers :
                thr[w].pc \in PostCapturePcs => thr'[w] = thr[w] ]_vars
    /\ [](\A w \in Workers :
            thr[w].pc = "finally" =>
              /\ thr[w].engine # NoneVal <=> thr[w].wav_written
              /\ thr[w].injected =
                   IF Recognised(thr[w])
                   THEN << Normalized(The(thr[w].engine).content) >>
                   ELSE << >>)

\* C17 witness: the capture loop of a thread was ended by a key-up before the
\* time limit, and a key-down handled since then has reset stop_recording and
\* started another thread.
C17_Witness ==
    \E v, w \in Workers :
      /\ thr[w].pc = "close"
      /\ thr[w].elapsed < MaxDurationTicks
      /\ thr[w].recorded_chunks # << >>
      /\ ~stop_recording
      /\ is_recording
      /\ thr[v].pc = "start"

\* -------------------------------------------------------------------- C18

\* C18: between handler invocations is_recording and stop_recording are never
\* both true; only on_hotkey_press and on_hotkey_release write the two flags,
\* and no step of a thread (a step in which a thread in flight moves on)
\* changes either of them.
C18_FlagsExclusive ==
    /\ [](~(is_recording /\ stop_recording))
    /\ [][ is_recording' # is_recording \/ stop_recording' # stop_recording
             => on_hotkey_press \/ on_hotkey_release ]_vars
    /\ [][ (\E w \in Workers : InFlight(w) /\ thr'[w].pc # thr[w].pc)
             => UNCHANGED << is_recording, stop_recording >> ]_vars

\* C18 witness: both handlers have written the flags (a key-down, then a
\* key-up) and the thread has since run to the end of its pipeline.
C18_Witness ==
    /\ stop_recording
    /\ ~is_recording
    /\ \E w \in Workers : thr[w].pc = "finally" /\ thr[w].injected # << >>

\* -------------------------------------------------------------------- C19

\* A step in which thread slot w is started (line 407).
Starts(w) == ~InFlight(w) /\ thr'[w].pc = "start"

\* C19: whenever on_hotkey_press starts a thread stop_recording is false
\* afterwards, whatever key-ups were handled before; stop_recording is raised
\* by on_hotkey_release only; and a capture loop is left before the time limit
\* only when stop_recording is set.  So a key-up handled before the key-down
\* of a session cannot end its capture, only a later one can.
C19_StartedWithStopClear ==
    /\ [][ \A w \in Workers : Starts(w) => on_hotkey_press /\ ~stop_recording' ]_vars
    /\ [][ ~stop_recording /\ stop_recording' => on_hotkey_release ]_vars
    /\ [][ \A w \in Workers :
             /\ thr[w].pc = "poll"
             /\ thr'[w].pc = "close"
             /\ thr[w].elapsed < MaxDurationTicks
             => stop_recording ]_vars

\* C19 witness: a key-up was handled while one thread was capturing, then a
\* key-down started a second thread, and stop_recording is clear for it.
C19_Witness ==
    \E v, w \in Workers :
      /\ thr[v].pc \in CapturePcs
      /\ thr[v].stop_signalled
      /\ thr[w].pc = "start"
      /\ ~stop_recording

\* -------------------------------------------------------------------- C20

\* Thread a was started before thread b, and both are in flight.
StartedBefore(a, b) ==
    \E i, j \in 1..Len(started) : i < j /\ started[i] = a /\ started[j] = b

\* C20: texts are injected in the order in which their sessions were started,
\* and never two at a time: while a thread is in type_text, no thread started
\* after it has injected already or is in type_text as well.
C20_InjectionInStartOrder ==
    \A a, b \in Workers :
      StartedBefore(a, b) /\ thr[a].pc = "type"
        => thr[b].injected = << >> /\ thr[b].pc # "type"

====
